---- MODULE Spec2Model ----
(***************************************************************************)
(* Model of app/app.py: a LINE webhook (callback) that stores photos on    *)
(* Gyazo, deletes them on a "delete" postback and stacks them into one     *)
(* 1080x1080 picture on a "merge" postback (edit_image).                   *)
(***************************************************************************)
EXTENDS Integers, Sequences, FiniteSets, TLC

\* ------------------------------------------------------------------------
\* Bounds of the model
\* ------------------------------------------------------------------------
MaxUploads == 3        \* uploads (photos and composites) Gyazo accepts in a run
MaxWidth == 34         \* widths drawn when edit_image's resize is checked alone
MaxHeight == 94        \* heights drawn when edit_image's resize is checked alone
MaxImages == 24        \* images composed when edit_image is checked alone
MaxScaled == 40        \* scaled heights drawn when the crop is checked alone
MaxAim == 40           \* band heights drawn when the crop is checked alone

\* ------------------------------------------------------------------------
\* Program constants
\* ------------------------------------------------------------------------
ON_A_SIDE == 1080
MANT_DIG == 53
AUTH_USER_ID == "auth"

\* ------------------------------------------------------------------------
\* Python float arithmetic (IEEE 754 binary64, round to nearest even).
\* A float is [m, e]: m the MANT_DIG significand bits, least significant
\* first, e the binary exponent of m[1]: value = (sum m[i] * 2^(i-1)) * 2^e.
\* ------------------------------------------------------------------------
\* number of bits of n >= 0
BitLen(n) == CHOOSE k \in 0..31 : (k = 0 \/ 2^(k - 1) <= n) /\ (k = 31 \/ n < 2^k)

\* bit i (0 the lowest) of n >= 0
BitOf(n, i) == (n \div 2^i) % 2

\* 2^n mod b, by squaring
RECURSIVE PowMod2(_, _)
PowMod2(n, b) ==
    IF n = 0 THEN 1 % b
    ELSE LET half == PowMod2(n \div 2, b)
         IN  (((half * half) % b) * (IF n % 2 = 1 THEN 2 ELSE 1)) % b

\* remainder of the long division of r by b after j binary places
RemAfter(r, b, j) == (r * PowMod2(j, b)) % b

\* j-th binary place (j >= 1) of r / b, for 0 <= r < b
FracBit(r, b, j) == IF 2 * RemAfter(r, b, j - 1) >= b THEN 1 ELSE 0

\* value of the bits lo..hi of bs, bs[lo] counting 1
RECURSIVE BitsToInt(_, _, _)
BitsToInt(bs, lo, hi) ==
    IF lo > hi THEN 0
    ELSE IF lo = hi THEN bs[lo]
    ELSE LET mid == (lo + hi) \div 2
         IN  BitsToInt(bs, lo, mid) + 2^(mid + 1 - lo) * BitsToInt(bs, mid + 1, hi)

\* bs + 1 on MANT_DIG bits; all ones carry into the next binade
IncBits(bs) ==
    [i \in 1..Len(bs) |->
        IF \A j \in 1..(i - 1) : bs[j] = 1 THEN 1 - bs[i] ELSE bs[i]]

RoundNearestEven(bs, sticky, e) ==
    IF Len(bs) <= MANT_DIG THEN [m |-> bs, e |-> e]
    ELSE LET d     == Len(bs) - MANT_DIG
             guard == bs[d]
             st    == sticky \/ (\E i \in 1..(d - 1) : bs[i] = 1)
             kept  == SubSeq(bs, d + 1, Len(bs))
             up    == guard = 1 /\ (st \/ kept[1] = 1)
         IN  IF ~up THEN [m |-> kept, e |-> e + d]
             ELSE IF \A i \in 1..MANT_DIG : kept[i] = 1
                  THEN [m |-> [i \in 1..MANT_DIG |-> IF i = MANT_DIG THEN 1 ELSE 0],
                        e |-> e + d + 1]
                  ELSE [m |-> IncBits(kept), e |-> e + d]

\* a / b of two positive ints (Python true division, correctly rounded):
\* the first MANT_DIG + 1 significant bits of the quotient, then rounding
TrueDiv(a, b) ==
    LET whole == a \div b
        r     == a % b
        n     == BitLen(whole)
        zeros == IF n > 0 THEN 0
                 ELSE (CHOOSE j \in 1..31 : /\ FracBit(r, b, j) = 1
                                            /\ \A k \in 1..(j - 1) : FracBit(r, b, k) = 0) - 1
        places == MANT_DIG + 1 - n + zeros
        sig(t) == IF t <= n THEN BitOf(whole, n - t) ELSE FracBit(r, b, t - n + zeros)
        bits   == [i \in 1..(MANT_DIG + 1) |-> sig(MANT_DIG + 2 - i)]
    IN  RoundNearestEven(bits, RemAfter(r, b, places) # 0, -places)

\* k * x of an int k >= 1 and a float (the int converts exactly, the product
\* rounds): the significand in four 13-bit limbs and the top bit
LimbBits == 13

Limb(bs, j) == BitsToInt(bs, LimbBits * j + 1, LimbBits * (j + 1))

\* the limbs of bs times k, each with the carry of the limbs below it added
RECURSIVE MulLimbs(_, _, _)
MulLimbs(bs, k, n) ==
    IF n = 0 THEN <<>>
    ELSE LET below == MulLimbs(bs, k, n - 1)
             carry == IF n = 1 THEN 0 ELSE below[n - 1] \div 2^LimbBits
         IN  Append(below, Limb(bs, n - 1) * k + carry)

IntTimesFloat(k, x) ==
    LET low    == MANT_DIG - 1
        limbs  == MulLimbs(x.m, k, low \div LimbBits)
        top    == x.m[MANT_DIG] * k + limbs[Len(limbs)] \div 2^LimbBits
        prod   == [i \in 1..(low + BitLen(top)) |->
                      IF i <= low
                      THEN BitOf(limbs[(i - 1) \div LimbBits + 1] % 2^LimbBits,
                                 (i - 1) % LimbBits)
                      ELSE BitOf(top, i - low - 1)]
    IN  RoundNearestEven(prod, FALSE, x.e)

\* mutant of FloatToInt: int(round(x)), the nearest integer
FloatToIntRounded(x) ==
    IF -x.e > MANT_DIG THEN 0
    ELSE IF x.e >= 0 THEN BitsToInt(x.m, 1, MANT_DIG) * 2^x.e
    ELSE BitsToInt(x.m, 1 - x.e, MANT_DIG) + x.m[-x.e]

\* int(x) of a float x >= 0: truncation
FloatToInt(x) ==
    IF -x.e >= MANT_DIG THEN 0
    ELSE IF x.e >= 0 THEN BitsToInt(x.m, 1, MANT_DIG) * 2^x.e
    ELSE BitsToInt(x.m, 1 - x.e, MANT_DIG)

\* int(image.height * (ON_A_SIDE / image.width))
ScaledHeightInt(w, h) == FloatToInt(IntTimesFloat(h, TrueDiv(ON_A_SIDE, w)))

\* the sizes of the pictures Gyazo holds in a run: the photos a user sends (a
\* square one, a wide one scaled below its band, one whose scaled height
\* truncates to 0) and the composites
PhotoSizes == {<<1080, 1080>>, <<16, 1>>, <<1081, 1>>}

StoredSizes == PhotoSizes \cup {<<ON_A_SIDE, ON_A_SIDE>>, <<1080, 1350>>, <<31, 93>>}

\* the scaled heights of the stored sizes, computed once
ScaledOfStored == [s \in StoredSizes |-> ScaledHeightInt(s[1], s[2])]

ScaledHeight(w, h) ==
    IF <<w, h>> \in StoredSizes THEN ScaledOfStored[<<w, h>>] ELSE ScaledHeightInt(w, h)

\* mutant of CropUpper: a division that truncates toward zero
CropUpperTruncating(height, aim_height) ==
    IF height >= aim_height THEN (height - aim_height) \div 2
    ELSE -((aim_height - height) \div 2)

\* image.crop((0, (height - aim) // 2, ON_A_SIDE, (height + aim) // 2)):
\* the box's upper and lower rows (// is floor division)
CropUpper(height, aim_height) == (height - aim_height) \div 2

CropLower(height, aim_height) == (height + aim_height) \div 2

CropBox(height, aim_height) ==
    [upper |-> CropUpper(height, aim_height),
     lower |-> CropLower(height, aim_height)]

\* height of the cropped image: lower - upper
CropRows(height, aim_height) ==
    CropBox(height, aim_height).lower - CropBox(height, aim_height).upper


\* ------------------------------------------------------------------------
\* State
\* ------------------------------------------------------------------------
VARIABLES
    store,      \* Gyazo: the set of stored images (photos and composites)
    uploads,    \* number of uploads Gyazo accepted; stamps image_id, created_at
    prevStore,  \* store when the last webhook request arrived
    last,       \* the last webhook request and callback's answer to it
    edit,       \* what edit_image did in the last request
    probe,      \* inputs of a function checked alone
    result,     \* its result
    pc,         \* concurrent requests: each worker's position
    job,        \* concurrent requests: each worker's local variables
    composed,   \* concurrent requests: inputs of every composite uploaded
    failed      \* concurrent requests: merges that ended in an exception

vars == <<store, uploads, prevStore, last, edit, probe, result, pc, job,
          composed, failed>>

UserIds == {AUTH_USER_ID, "other", "missing"}

Events ==
    {[type |-> "text"]}
    \cup {[type |-> "image", decodable |-> TRUE, width |-> s[1], height |-> s[2]] :
              s \in PhotoSizes}
    \cup {[type |-> "image", decodable |-> FALSE]}
    \cup {[type |-> "postback", data |-> d] : d \in {"delete", "merge", "other"}}

\* a webhook request: the userId of events[0].source, whether X-Line-Signature
\* matches the body, and the events of the body: the one event of a message
\* or a tap, or none (the developer console's test request)
Requests ==
    {req \in [userId : UserIds, sigValid : BOOLEAN,
              events : {<<>>} \cup {<<e>> : e \in Events}] :
        req.events = <<>> => req.userId = "missing"}

NoEdit == [status |-> "none", shuffled |-> FALSE, bands |-> <<>>]

NoRequest == [userId |-> "missing", sigValid |-> FALSE,
              status |-> 0, replies |-> <<>>, error |-> "none"]

Ids(images) == {im.image_id : im \in images}

SeqIds(images) == [i \in 1..Len(images) |-> images[i].image_id]

\* ------------------------------------------------------------------------
\* Gyazo API calls
\* ------------------------------------------------------------------------
RECURSIVE ListBy(_, _)
ListBy(images, order) ==
    IF images = {} THEN <<>>
    ELSE LET first == CHOOSE im \in images :
                          \A other \in images : order[im.image_id] <= order[other.image_id]
         IN  <<first>> \o ListBy(images \ {first}, order)

\* GET /api/images: the stored images, in the order the service lists them
get_images_list(images, order) == ListBy(images, order)

\* list.sort(key=created_at): stable insertion sort
RECURSIVE InsertByCreatedAt(_, _)
InsertByCreatedAt(sorted, im) ==
    IF sorted = <<>> THEN <<im>>
    ELSE IF im.created_at < Head(sorted).created_at THEN <<im>> \o sorted
    ELSE <<Head(sorted)>> \o InsertByCreatedAt(Tail(sorted), im)

RECURSIVE SortByCreatedAt(_)
SortByCreatedAt(images) ==
    IF images = <<>> THEN <<>>
    ELSE InsertByCreatedAt(SortByCreatedAt(SubSeq(images, 1, Len(images) - 1)),
                           images[Len(images)])

\* mutant of SortImages: the listing is taken as Gyazo returns it
SortImagesSkipped(images) == images

SortImages(images) == SortByCreatedAt(images)

get_all_images(images, order) == SortImages(get_images_list(images, order))

\* POST /api/upload: Gyazo stores the picture and stamps it
upload_image(st, width, height, kind) ==
    [st EXCEPT !.uploads = st.uploads + 1,
               !.store = st.store \cup {[image_id   |-> st.uploads + 1,
                                         created_at |-> st.uploads + 1,
                                         width      |-> width,
                                         height     |-> height,
                                         kind       |-> kind]}]

\* DELETE /api/images/{id} for every listed image; the answer is not looked
\* at, and the images in undeletable are those whose DELETE did not succeed
delete_all_images(images, order, undeletable) ==
    LET listed == get_images_list(images, order)
    IN  {im \in images : im.image_id \notin Ids({listed[i] : i \in 1..Len(listed)})
                         \/ im.image_id \in undeletable}

\* ------------------------------------------------------------------------
\* edit_image: the composition
\* ------------------------------------------------------------------------
\* ON_A_SIDE // len(images)
SectionHeight(n) == ON_A_SIDE \div n

\* mutant of AimHeight: the last band is as high as the others
AimHeightEqual(i, n, cur_height) == SectionHeight(n)

\* aim_height of image i (0-based) of n
AimHeight(i, n, cur_height) ==
    IF i # n - 1 THEN SectionHeight(n) ELSE 1080 - cur_height

\* the loop of lines 241-248 from images[i + 1] on (i is enumerate's 0-based
\* index), and its body once the image's resized height is known.
\* Image.resize raises ValueError for a height below 1; the crop pads the rows
\* of its box that lie outside the image.
RECURSIVE EditLoop(_, _, _, _)
RECURSIVE PasteBand(_, _, _, _, _)
EditLoop(images, i, cur_height, bands) ==
    IF i = Len(images)
    THEN [status |-> "ok", bands |-> bands, cur_height |-> cur_height]
    ELSE PasteBand(images, i, cur_height, bands,
                   ScaledHeight(images[i + 1].width, images[i + 1].height))

PasteBand(images, i, cur_height, bands, height) ==
    LET image      == images[i + 1]
        aim_height == AimHeight(i, Len(images), cur_height)
    IN  IF height < 1
        THEN [status |-> "ValueError", bands |-> bands, cur_height |-> cur_height]
        ELSE EditLoop(images, i + 1, cur_height + CropRows(height, aim_height),
                      Append(bands, [image_id   |-> image.image_id,
                                     created_at |-> image.created_at,
                                     kind       |-> image.kind,
                                     scaled     |-> height,
                                     aim_height |-> aim_height,
                                     upper      |-> CropUpper(height, aim_height),
                                     lower      |-> CropLower(height, aim_height),
                                     offset     |-> cur_height,
                                     rows       |-> CropRows(height, aim_height)]))

\* lines 236-250: the bands pasted into the new 1080x1080 image
EditBands(images) ==
    IF Len(images) = 0
    THEN [status |-> "ZeroDivisionError", bands |-> <<>>, cur_height |-> 0]
    ELSE EditLoop(images, 0, 0, <<>>)

\* lines 251-253: the new image is uploaded, unless the lines before raised
UploadEdited(st, made, shuffled) ==
    IF made.status # "ok"
    THEN [st EXCEPT !.error = made.status,
                    !.edit = [status |-> made.status, shuffled |-> shuffled,
                              bands |-> made.bands]]
    ELSE upload_image([st EXCEPT !.edit = [status |-> made.status,
                                           shuffled |-> shuffled,
                                           bands |-> made.bands]],
                      ON_A_SIDE, ON_A_SIDE, "composite")

edit_image(st, order) ==
    UploadEdited(st, EditBands(get_all_images(st.store, order)),
                 get_images_list(st.store, order) # get_all_images(st.store, order))

\* ------------------------------------------------------------------------
\* The handlers of the webhook events
\* ------------------------------------------------------------------------
Reply(st, message) == [st EXCEPT !.replies = Append(st.replies, message)]

handle_message(st, env) ==
    IF Len(get_images_list(st.store, env.order)) = 0
    THEN Reply(st, "no_images")
    ELSE Reply(st, "images_and_delete_button")

\* mutant of handle_image: the attachment is uploaded before it is decoded
handle_image_UploadFirst(st, event) ==
    IF ~event.decodable
    THEN [upload_image(st, 1, 1, "photo") EXCEPT !.error = "UnidentifiedImageError"]
    ELSE Reply(upload_image(st, event.width, event.height, "photo"),
               "received_and_merge_button")

handle_image(st, event) ==
    IF ~event.decodable
    THEN [st EXCEPT !.error = "UnidentifiedImageError"]
    ELSE Reply(upload_image(st, event.width, event.height, "photo"),
               "received_and_merge_button")

\* mutant of DeleteReply: the listing is not read back
DeleteReplyUnchecked(images) == "deleted"

DeleteReply(images) == IF Len(images) = 0 THEN "deleted" ELSE "delete_failed"

\* lines 217-229: the reply with the composite's urls
ReplyEdited(edited) ==
    IF edited.error # "none" THEN edited ELSE Reply(edited, "edited")

handle_postback(st, event, env) ==
    IF event.data = "delete"
    THEN LET kept == delete_all_images(st.store, env.order, env.undeletable)
             left == get_images_list(kept, env.order)
         IN  Reply([st EXCEPT !.store = kept], DeleteReply(left))
    ELSE IF event.data = "merge"
    THEN ReplyEdited(edit_image(st, env.order))
    ELSE st

Dispatch(st, event, env) ==
    IF event.type = "text" THEN handle_message(st, env)
    ELSE IF event.type = "image" THEN handle_image(st, event)
    ELSE handle_postback(st, event, env)

\* handler.handle after the signature check: the events in turn, until one raises
RECURSIVE HandleEvents(_, _, _)
HandleEvents(st, events, env) ==
    IF events = <<>> \/ st.error # "none" THEN st
    ELSE HandleEvents(Dispatch(st, Head(events), env), Tail(events), env)

\* ------------------------------------------------------------------------
\* callback: one webhook request, by the way it leaves the function
\* ------------------------------------------------------------------------
Start == [store |-> store, uploads |-> uploads, replies |-> <<>>,
          edit |-> NoEdit, error |-> "none"]

Answer(req, st, status) ==
    /\ store' = st.store
    /\ uploads' = st.uploads
    /\ prevStore' = store
    /\ edit' = st.edit
    /\ last' = [userId |-> req.userId, sigValid |-> req.sigValid,
                status |-> status, replies |-> st.replies, error |-> st.error]
    /\ UNCHANGED <<probe, result, pc, job, composed, failed>>

HasUserId(req) == req.events # <<>> /\ req.userId # "missing"

Authorized(req) == req.userId = AUTH_USER_ID

\* mutant of SignatureOk: the signature is not verified
SignatureIgnored(req) == TRUE

SignatureOk(req) == req.sigValid

HasMerge(req) ==
    \E i \in 1..Len(req.events) :
        req.events[i].type = "postback" /\ req.events[i].data = "merge"

HasDelete(req) ==
    \E i \in 1..Len(req.events) :
        req.events[i].type = "postback" /\ req.events[i].data = "delete"

\* the ids of the images a request can see: those stored when it arrives and
\* those its own events upload
Visible(req) == Ids(store) \cup (uploads + 1)..(uploads + Len(req.events))

Identity == [i \in 1..(MaxUploads + 1) |-> i]

\* the orders in which Gyazo may list the images a request sees
Orders(req) ==
    {[i \in DOMAIN Identity |-> IF i \in DOMAIN p THEN p[i] ELSE i] :
         p \in Permutations(Visible(req))}

\* what Gyazo does during a request: the order of its listings, and the images
\* whose DELETE does not succeed
Envs(req) ==
    [order : IF HasMerge(req) THEN Orders(req) ELSE {Identity},
     undeletable : IF HasDelete(req) THEN SUBSET Visible(req) ELSE {{}}]

\* lines 103-106: no events[0].source.userId in the body
CallbackNoUser(req) ==
    /\ ~HasUserId(req)
    /\ Answer(req, Start, 200)

\* lines 108-113: another user's request is refused
CallbackRefuse(req) ==
    /\ HasUserId(req)
    /\ ~Authorized(req)
    /\ Answer(req, Reply(Start, "refusal"), 200)

\* lines 116-118: handler.handle raises InvalidSignatureError
CallbackInvalidSignature(req) ==
    /\ HasUserId(req)
    /\ Authorized(req)
    /\ ~SignatureOk(req)
    /\ Answer(req, Start, 400)

\* line 126 after handler.handle returned
Returned(req, st) ==
    /\ st.error = "none"
    /\ st.uploads <= MaxUploads
    /\ Answer(req, st, 200)

\* lines 119-125 after handler.handle raised
Raised(req, st) ==
    /\ st.error # "none"
    /\ st.uploads <= MaxUploads
    /\ Answer(req, Reply(st, "error"), 500)

\* lines 116, 126: every event handled
CallbackHandled(req, env) ==
    /\ HasUserId(req)
    /\ Authorized(req)
    /\ SignatureOk(req)
    /\ Returned(req, HandleEvents(Start, req.events, env))

\* lines 119-125: a handler raised
CallbackError(req, env) ==
    /\ HasUserId(req)
    /\ Authorized(req)
    /\ SignatureOk(req)
    /\ Raised(req, HandleEvents(Start, req.events, env))

Workers == {"w1", "w2"}

NoJob == [kind |-> "none", arrivedEmpty |-> FALSE, listing |-> <<>>,
          images |-> <<>>, i |-> 0]

Init ==
    /\ store = {}
    /\ uploads = 0
    /\ prevStore = {}
    /\ last = NoRequest
    /\ edit = NoEdit
    /\ probe = <<>>
    /\ result = <<>>
    /\ pc = [w \in Workers |-> "idle"]
    /\ job = [w \in Workers |-> NoJob]
    /\ composed = {}
    /\ failed = {}

Next ==
    \/ \E req \in Requests : CallbackNoUser(req)
    \/ \E req \in Requests : CallbackRefuse(req)
    \/ \E req \in Requests : CallbackInvalidSignature(req)
    \/ \E req \in Requests : \E env \in Envs(req) : CallbackHandled(req, env)
    \/ \E req \in Requests : \E env \in Envs(req) : CallbackError(req, env)

\* requests served one at a time (Flask's development server with one thread,
\* a Lambda with one instance)
Spec == Init /\ [][Next]_vars

\* ------------------------------------------------------------------------
\* The functions of edit_image alone, on inputs drawn from bounded ranges
\* ------------------------------------------------------------------------
Idle ==
    /\ store = {}
    /\ uploads = 0
    /\ prevStore = {}
    /\ last = NoRequest
    /\ edit = NoEdit
    /\ pc = [w \in Workers |-> "idle"]
    /\ job = [w \in Workers |-> NoJob]
    /\ composed = {}
    /\ failed = {}

Apply(value) ==
    /\ result = <<>>
    /\ result' = value
    /\ UNCHANGED <<store, uploads, prevStore, last, edit, probe, pc, job,
                   composed, failed>>

\* line 244: the height an image of probe.width x probe.height is resized to
InitResize ==
    /\ Idle
    /\ probe \in [width : 1..MaxWidth, height : 1..MaxHeight]
    /\ result = <<>>

Resize == Apply([height |-> ScaledHeight(probe.width, probe.height)])

SpecResize == InitResize /\ [][Resize]_vars

\* lines 242-248 for the last band: the resized image of probe.height rows is
\* cropped to aim_height = 1080 - cur_height rows and pasted at cur_height
InitCrop ==
    /\ Idle
    /\ probe \in [height : 0..MaxScaled, aim_height : 0..MaxAim]
    /\ result = <<>>

Crop ==
    LET cur_height == 1080 - probe.aim_height
        box        == CropBox(probe.height, probe.aim_height)
        rows       == CropRows(probe.height, probe.aim_height)
    IN  Apply([upper |-> box.upper, lower |-> box.lower, rows |-> rows,
               cur_height |-> cur_height + rows])

SpecCrop == InitCrop /\ [][Crop]_vars

\* lines 236-250 on probe.n images whose sizes run through ComposeSizes from
\* probe.first on; with probe.flat the last image is too flat to be resized
ComposeSizes == <<<<1080, 1080>>, <<16, 1>>, <<1080, 1350>>, <<31, 93>>>>

ProbeImages ==
    [i \in 1..probe.n |->
        LET size == IF probe.flat /\ i = probe.n THEN <<1081, 1>>
                    ELSE ComposeSizes[((probe.first + i) % Len(ComposeSizes)) + 1]
        IN  [image_id |-> i, created_at |-> i, width |-> size[1],
             height |-> size[2], kind |-> "photo"]]

InitCompose ==
    /\ Idle
    /\ probe \in [n : 0..MaxImages, first : 1..Len(ComposeSizes), flat : BOOLEAN]
    /\ result = <<>>

Compose == Apply(EditBands(ProbeImages))

SpecCompose == InitCompose /\ [][Compose]_vars

\* ------------------------------------------------------------------------
\* Concurrent requests: two workers (threads of Flask's server, instances of
\* the Lambda) serve requests of the authorised user at once; each call to
\* Gyazo is a step of its own, and nothing in app.py holds a lock.
\* ------------------------------------------------------------------------
Others == <<uploads, store, composed, failed>>

Goto(w, label, locals) ==
    /\ pc' = [pc EXCEPT ![w] = label]
    /\ job' = [job EXCEPT ![w] = locals]
    /\ UNCHANGED <<prevStore, last, edit, probe, result>>

\* the records of a listing that Gyazo still holds
Held(image) == image \in store

\* callback hands the event of an arriving request to its handler
Receive(w, kind) ==
    /\ pc[w] = "idle"
    /\ Goto(w, kind, [NoJob EXCEPT !.kind = kind, !.arrivedEmpty = (store = {})])
    /\ UNCHANGED Others

\* handle_image: upload_image (line 176) and the reply
ImageUpload(w) ==
    /\ pc[w] = "image"
    /\ uploads < MaxUploads
    /\ LET st == upload_image([store |-> store, uploads |-> uploads],
                              ON_A_SIDE, ON_A_SIDE, "photo")
       IN  /\ store' = st.store
           /\ uploads' = st.uploads
    /\ Goto(w, "idle", NoJob)
    /\ UNCHANGED <<composed, failed>>

\* delete_all_images, lines 77-78: the listing
DeleteList(w, order) ==
    /\ pc[w] = "delete"
    /\ Goto(w, "delete_each", [job[w] EXCEPT !.listing = get_images_list(store, order)])
    /\ UNCHANGED Others

\* delete_all_images, lines 79-80: one delete_image
DeleteEach(w) ==
    /\ pc[w] = "delete_each"
    /\ job[w].i < Len(job[w].listing)
    /\ store' = store \ {job[w].listing[job[w].i + 1]}
    /\ Goto(w, "delete_each", [job[w] EXCEPT !.i = job[w].i + 1])
    /\ UNCHANGED <<uploads, composed, failed>>

\* handle_postback, lines 202-213: the listing read back and the reply
DeleteCheck(w) ==
    /\ pc[w] = "delete_each"
    /\ job[w].i = Len(job[w].listing)
    /\ Goto(w, "idle", NoJob)
    /\ UNCHANGED Others

\* get_all_images, lines 85-87: the listing, sorted
MergeList(w, order) ==
    /\ pc[w] = "merge"
    /\ Goto(w, "merge_fetch",
            [job[w] EXCEPT !.listing = SortImages(get_images_list(store, order))])
    /\ UNCHANGED Others

\* get_all_images, line 88: one get_image of an image Gyazo holds
MergeFetch(w) ==
    /\ pc[w] = "merge_fetch"
    /\ job[w].i < Len(job[w].listing)
    /\ Held(job[w].listing[job[w].i + 1])
    /\ Goto(w, "merge_fetch",
            [job[w] EXCEPT !.i = job[w].i + 1,
                           !.images = Append(job[w].images, job[w].listing[job[w].i + 1])])
    /\ UNCHANGED Others

\* get_image of an image deleted since the listing: its url may still serve
\* the picture ...
MergeFetchStale(w) ==
    /\ pc[w] = "merge_fetch"
    /\ job[w].i < Len(job[w].listing)
    /\ ~Held(job[w].listing[job[w].i + 1])
    /\ Goto(w, "merge_fetch",
            [job[w] EXCEPT !.i = job[w].i + 1,
                           !.images = Append(job[w].images, job[w].listing[job[w].i + 1])])
    /\ UNCHANGED Others

\* ... or no picture, and Image.open raises
MergeFetchGone(w) ==
    /\ pc[w] = "merge_fetch"
    /\ job[w].i < Len(job[w].listing)
    /\ ~Held(job[w].listing[job[w].i + 1])
    /\ failed' = failed \cup {[error |-> "UnidentifiedImageError",
                               arrivedEmpty |-> job[w].arrivedEmpty]}
    /\ Goto(w, "idle", NoJob)
    /\ UNCHANGED <<uploads, store, composed>>

\* edit_image, lines 236-251, raising
MergeRaise(w) ==
    /\ pc[w] = "merge_fetch"
    /\ job[w].i = Len(job[w].listing)
    /\ EditBands(job[w].images).status # "ok"
    /\ failed' = failed \cup {[error |-> EditBands(job[w].images).status,
                               arrivedEmpty |-> job[w].arrivedEmpty]}
    /\ Goto(w, "idle", NoJob)
    /\ UNCHANGED <<uploads, store, composed>>

\* edit_image, lines 236-253, and the reply: the composite is uploaded
MergeUpload(w) ==
    /\ pc[w] = "merge_fetch"
    /\ job[w].i = Len(job[w].listing)
    /\ EditBands(job[w].images).status = "ok"
    /\ uploads < MaxUploads
    /\ LET st == upload_image([store |-> store, uploads |-> uploads],
                              ON_A_SIDE, ON_A_SIDE, "composite")
       IN  /\ store' = st.store
           /\ uploads' = st.uploads
    /\ composed' = composed \cup {[image_id |-> uploads + 1,
                                   inputs |-> SeqIds(job[w].images)]}
    /\ Goto(w, "idle", NoJob)
    /\ UNCHANGED failed

NextConc ==
    \E w \in Workers :
        \/ \E kind \in {"image", "delete", "merge"} : Receive(w, kind)
        \/ ImageUpload(w)
        \/ \E order \in Orders([events |-> <<>>]) : DeleteList(w, order)
        \/ DeleteEach(w)
        \/ DeleteCheck(w)
        \/ \E order \in Orders([events |-> <<>>]) : MergeList(w, order)
        \/ MergeFetch(w)
        \/ MergeFetchStale(w)
        \/ MergeFetchGone(w)
        \/ MergeRaise(w)
        \/ MergeUpload(w)

SpecConc == Init /\ [][NextConc]_vars

\* ------------------------------------------------------------------------
\* Properties
\* ------------------------------------------------------------------------
Composed == result # <<>> /\ result.status = "ok"

\* C1: in every composition of N >= 1 images the bands partition the canvas:
\* bands 0..N-2 are floor(S/N) rows high, the last one S - floor(S/N)*(N-1),
\* band i is pasted at the sum of the heights of the bands before it, and the
\* heights sum to S.
C1_BandsPartitionCanvas ==
    Composed =>
        LET n     == probe.n
            base  == ON_A_SIDE \div n
            bands == result.bands
        IN  /\ n >= 1
            /\ Len(bands) = n
            /\ \A i \in 1..n :
                  /\ bands[i].rows = IF i < n THEN base ELSE ON_A_SIDE - base * (n - 1)
                  /\ bands[i].offset = base * (i - 1)
                  /\ bands[i].image_id = i
            /\ \A i \in 1..(n - 1) : bands[i + 1].offset = bands[i].offset + bands[i].rows
            /\ bands[n].offset + bands[n].rows = ON_A_SIDE
            /\ result.cur_height = ON_A_SIDE

\* a composition whose last band takes a remainder
C1_Witness ==
    /\ Composed
    /\ probe.n >= 2
    /\ ON_A_SIDE % probe.n # 0
    /\ result.bands[probe.n].rows > result.bands[1].rows

Merged == edit.status = "ok" /\ last.status = 200

\* C2: after a merge that succeeded the store holds none of the images that
\* went into the composite, and no composite went into it.
C2_InputsRemovedAfterMerge ==
    Merged =>
        \A i \in 1..Len(edit.bands) :
            /\ edit.bands[i].image_id \notin Ids(store)
            /\ edit.bands[i].kind # "composite"

\* C3: a merge on an empty store ends in EmptyInputError, never in a division
\* by zero; nothing is uploaded and the store is unchanged.
C3_EmptyMergeIsEmptyInputError ==
    (edit.status # "none" /\ prevStore = {}) =>
        /\ last.error = "EmptyInputError"
        /\ last.error # "ZeroDivisionError"
        /\ store = prevStore

Composing(w) == pc[w] = "merge_fetch"

Clearing(w) == pc[w] = "delete_each"

Listed(w) == {job[w].listing[i] : i \in 1..Len(job[w].listing)}

\* C4: listing, composing and clearing are one atomic unit: no merge holds a
\* listing that another request is deleting from, no merge that arrived at a
\* non-empty store ends in the empty-input failure, and no two composites are
\* made of the same images.
C4_MergeIsAtomic ==
    /\ \A w \in Workers : \A v \in Workers \ {w} :
          ~(Composing(w) /\ Clearing(v) /\ Listed(w) \cap Listed(v) # {})
    /\ \A f \in failed : f.error = "ZeroDivisionError" => f.arrivedEmpty
    /\ \A c \in composed : \A d \in composed :
          c.image_id # d.image_id => c.inputs # d.inputs

Reverse(s) == [i \in 1..Len(s) |-> s[Len(s) + 1 - i]]

BandIds(bands) == [i \in 1..Len(bands) |-> bands[i].image_id]

Declined == last.status = 200 /\ last.replies \in {<<"deleted">>, <<"delete_failed">>}

\* C6 as written: when the delete postback returns, the store is empty, no
\* composite was uploaded, and the success reply was sent only for an empty store.
C6_StoreEmptyAfterDecline ==
    Declined =>
        /\ store = {}
        /\ edit = NoEdit
        /\ last.replies = <<"deleted">> => store = {}

\* C6 amended: the delete postback composes nothing and uploads nothing, it
\* removes every stored image whose DELETE succeeds and no other, it answers
\* with the success reply exactly when the store is empty afterwards, and on
\* an empty store it leaves the store empty and answers with the success reply.
C6_DeclineClearsOrReports ==
    Declined =>
        /\ edit = NoEdit
        /\ store \subseteq prevStore
        /\ last.replies = <<"deleted">> <=> store = {}
        /\ prevStore = {} => store = {} /\ last.replies = <<"deleted">>

\* a decline that emptied a store holding images
C6_Witness ==
    /\ Declined
    /\ prevStore # {}
    /\ store = {}
    /\ last.replies = <<"deleted">>

\* a decline after which images are left
C6_WitnessLeft ==
    /\ Declined
    /\ store # {}
    /\ last.replies = <<"delete_failed">>

\* what the handlers make of one more event, from the state as it is
Served(event) == HandleEvents(Start, <<event>>, [order |-> Identity, undeletable |-> {}])

\* C7: an attachment that is no image is rejected with the error answer and
\* the store is as it was; an image or a merge event after it is handled as if
\* the rejected one had never come.
C7_UndecodableRejected ==
    last.error = "UnidentifiedImageError" =>
        /\ store = prevStore
        /\ last.status = 500
        /\ last.replies = <<"error">>
        /\ edit = NoEdit
        /\ \A s \in PhotoSizes :
              LET next == Served([type |-> "image", decodable |-> TRUE,
                                  width |-> s[1], height |-> s[2]])
              IN  /\ next.error = "none"
                  /\ Cardinality(next.store) = Cardinality(prevStore) + 1
        /\ LET next == Served([type |-> "postback", data |-> "merge"])
           IN  {next.edit.bands[i].image_id : i \in 1..Len(next.edit.bands)}
                   \subseteq Ids(prevStore)

\* an undecodable attachment sent while images are stored
C7_Witness ==
    /\ last.error = "UnidentifiedImageError"
    /\ prevStore # {}

Applied == result # <<>>

Exact == probe.height * ON_A_SIDE

\* C8 as written: the scaled height is h * S / w rounded to a nearest integer.
C8_ScaledHeightIsRounded ==
    Applied =>
        /\ 2 * (result.height * probe.width) <= 2 * Exact + probe.width
        /\ 2 * (result.height * probe.width) >= 2 * Exact - probe.width

\* C8 amended: the scaled height is int(h * (S / w)) in float arithmetic: it
\* is floor(h * S / w) when w does not divide h * S, and h * S / w or one less
\* when it does (the product of the rounded quotient may fall just below the
\* integer); it is never above h * S / w, so never rounded up.
C8_ScaledHeightIsTruncated ==
    Applied =>
        /\ Exact % probe.width # 0 => result.height = Exact \div probe.width
        /\ Exact % probe.width = 0 =>
              result.height \in {Exact \div probe.width, Exact \div probe.width - 1}
        /\ result.height * probe.width <= Exact

\* a size whose scaled height has a fractional part of a half or more
C8_Witness ==
    /\ Applied
    /\ 2 * (Exact % probe.width) >= probe.width
    /\ result.height = Exact \div probe.width

\* a size where the float product falls below the integer quotient
C8_WitnessBelow ==
    /\ Applied
    /\ Exact % probe.width = 0
    /\ result.height = Exact \div probe.width - 1

\* C9: the crop of h rows to t rows has exactly t rows for every h and t, for
\* either parity of h - t and for h < t; the rows cut (or padded) above and
\* below differ by at most one, and cur_height is S after the last band.
C9_CropHasAimRows ==
    Applied =>
        LET above == result.upper
            below == probe.height - result.lower
        IN  /\ result.rows = probe.aim_height
            /\ result.lower - result.upper = probe.aim_height
            /\ above - below \in {-1, 0, 1}
            /\ above + below = probe.height - probe.aim_height
            /\ result.cur_height = ON_A_SIDE

\* a crop that pads: fewer rows than the band, the difference odd
C9_Witness ==
    /\ Applied
    /\ probe.height < probe.aim_height
    /\ (probe.aim_height - probe.height) % 2 = 1
    /\ result.upper < 0
    /\ result.lower > probe.height

Answered == last.status # 0

====
